---- MODULE Spec2Model ----
(***************************************************************************)
(* A model of torchngp's ray-step samplers, volumetric integration and     *)
(* render orchestration.                                                   *)
(*                                                                         *)
(* Tensors of reals are modelled by exact rationals [num, den] in lowest   *)
(* terms.  den = 0 encodes the IEEE special values the tensor arithmetic   *)
(* produces instead of raising: 1/0 = +inf, -1/0 = -inf, 0/0 = NaN.        *)
(* Floating-point rounding is not modelled.  A batch of rays is modelled   *)
(* ray by ray where every tensor operation of the code is elementwise over *)
(* the batch dimensions.                                                   *)
(***************************************************************************)
EXTENDS Integers, Sequences, FiniteSets, TLC

VARIABLES call

vars == <<call>>

\* ------------------------------------------------------------------ bounds

\* ray parameters tnear, tfar and input steps lie on the integer grid 0..MaxT
MaxT == 2
\* number of strata of the stratified sampler is 1..MaxBins
MaxBins == 2
\* the uniform offsets are u/UDen with u in 0..UDen-1, i.e. values of [0,1)
UDen == 3

\* --------------------------------------------------------------- rationals

Abs(n) == IF n < 0 THEN -n ELSE n

Sign(n) == IF n < 0 THEN -1 ELSE IF n > 0 THEN 1 ELSE 0

RECURSIVE GCD(_, _)
GCD(a, b) == IF b = 0 THEN a ELSE GCD(b, a % b)

\* the rational n/d in lowest terms with a positive denominator; d = 0 gives
\* +inf, -inf or NaN as float division does
R(n, d) ==
  IF d = 0 THEN [num |-> Sign(n), den |-> 0]
  ELSE LET g == GCD(Abs(n), Abs(d))
           s == Sign(d)
       IN  [num |-> s * (n \div g), den |-> s * (d \div g)]

NaN == [num |-> 0, den |-> 0]
Inf == [num |-> 1, den |-> 0]
Zero == [num |-> 0, den |-> 1]
One == [num |-> 1, den |-> 1]

IsNaN(x) == x.den = 0 /\ x.num = 0
IsInf(x) == x.den = 0 /\ x.num # 0
IsFinite(x) == x.den # 0

RNeg(x) == [num |-> -x.num, den |-> x.den]

RAdd(x, y) ==
  IF IsNaN(x) \/ IsNaN(y) THEN NaN
  ELSE IF IsInf(x) THEN (IF IsInf(y) /\ y.num # x.num THEN NaN ELSE x)
  ELSE IF IsInf(y) THEN y
  ELSE LET g == GCD(x.den, y.den)
       IN  R(x.num * (y.den \div g) + y.num * (x.den \div g),
             (x.den \div g) * y.den)

RSub(x, y) == RAdd(x, RNeg(y))

RMul(x, y) ==
  IF IsNaN(x) \/ IsNaN(y) THEN NaN
  ELSE IF IsInf(x) \/ IsInf(y)
       THEN [num |-> Sign(x.num) * Sign(y.num), den |-> 0]
  ELSE LET g1 == GCD(Abs(x.num), y.den)
           g2 == GCD(Abs(y.num), x.den)
       IN  [num |-> (x.num \div g1) * (y.num \div g2),
            den |-> (x.den \div g2) * (y.den \div g1)]

RInv(x) ==
  IF IsNaN(x) THEN NaN
  ELSE IF IsInf(x) THEN Zero
  ELSE IF x.num = 0 THEN Inf
  ELSE [num |-> Sign(x.num) * x.den, den |-> Abs(x.num)]

RDiv(x, y) == RMul(x, RInv(y))

\* n1/d1 <= n2/d2 for positive denominators, by comparing integer parts and
\* then the inverted fractional parts (no product that could overflow)
RECURSIVE LeqFin(_, _, _, _)
LeqFin(n1, d1, n2, d2) ==
  LET q1 == n1 \div d1
      q2 == n2 \div d2
      r1 == n1 % d1
      r2 == n2 % d2
  IN  IF q1 # q2 THEN q1 < q2
      ELSE IF r1 = 0 THEN TRUE
      ELSE IF r2 = 0 THEN FALSE
      ELSE LeqFin(d2, r2, d1, r1)

\* x <= y as floats compare: false when either side is NaN
RLeq(x, y) ==
  IF IsNaN(x) \/ IsNaN(y) THEN FALSE
  ELSE IF IsInf(x) THEN (x.num < 0 \/ x = y)
  ELSE IF IsInf(y) THEN y.num > 0
  ELSE LeqFin(x.num, x.den, y.num, y.den)

RLt(x, y) == RLeq(x, y) /\ x # y

RGt(x, y) == RLt(y, x)

\* ------------------------------------------------------- tensor helpers

\* torch.cumsum along the step axis
RECURSIVE cumsum(_)
cumsum(s) ==
  IF Len(s) <= 1 THEN s
  ELSE LET p == cumsum(SubSeq(s, 1, Len(s) - 1))
       IN  Append(p, RAdd(p[Len(p)], s[Len(s)]))

\* the sequence s with all its elements evaluated (a tuple)
Tup(s) == s \o <<>>

\* all sequences over S of length n
SeqsOf(S, n) == [1..n -> S]

\* non-decreasing integer sequences of length n over lo..hi
AscSeqs(lo, hi, n) ==
  {s \in [1..n -> lo..hi] : \A i \in 1..(n - 1) : s[i] <= s[i + 1]}

\* ------------------------------------------------- stratified sampler

\* sample_ray_step_stratified with the offset scaled by the whole interval td
\* instead of the stratum width td / n_bins
stratified_unscaled_offset(ray_tnear, ray_tfar, n_bins, u) ==
  LET tnear == R(ray_tnear, 1)
      td == RSub(R(ray_tfar, 1), tnear)
  IN  Tup([i \in 1..n_bins |->
             RAdd(RAdd(tnear, RMul(R(i - 1, n_bins), td)),
                  RMul(td, R(u[i], UDen)))])

\* sample_ray_step_stratified with the strata visited from the far end:
\* ifrac counts down instead of up
stratified_reversed_bins(ray_tnear, ray_tfar, n_bins, u) ==
  LET tnear == R(ray_tnear, 1)
      td == RSub(R(ray_tfar, 1), tnear)
  IN  Tup([i \in 1..n_bins |->
             RAdd(RAdd(tnear, RMul(R(n_bins - i, n_bins), td)),
                  RMul(RDiv(td, R(n_bins, 1)), R(u[i], UDen)))])

\* sample_ray_step_stratified with td taken as ray_tfar instead of
\* ray_tfar - ray_tnear
stratified_td_from_origin(ray_tnear, ray_tfar, n_bins, u) ==
  LET tnear == R(ray_tnear, 1)
      td == R(ray_tfar, 1)
  IN  Tup([i \in 1..n_bins |->
             RAdd(RAdd(tnear, RMul(R(i - 1, n_bins), td)),
                  RMul(RDiv(td, R(n_bins, 1)), R(u[i], UDen)))])

\* sample_ray_step_stratified for one ray; u[i]/UDen is the offset that
\* uniform_(0, 1) drew for stratum i
sample_ray_step_stratified(ray_tnear, ray_tfar, n_bins, u) ==
  LET tnear == R(ray_tnear, 1)
      tfar == R(ray_tfar, 1)
      ifrac == Tup([i \in 1..n_bins |-> R(i - 1, n_bins)])
      td == RSub(tfar, tnear)
      tnear_bins ==
        Tup([i \in 1..n_bins |-> RAdd(tnear, RMul(ifrac[i], td))])
  IN  Tup([i \in 1..n_bins |->
             RAdd(tnear_bins[i],
                  RMul(RDiv(td, R(n_bins, 1)), R(u[i], UDen)))])

\* ------------------------------------------------------ informed sampler

\* boundary slack of the CDF sentinels and of the per-segment solve: 1e-5
EpsDen == 100000

eps == R(1, EpsDen)

\* torch.cross of two 3-vectors
cross(p, q) ==
  <<RSub(RMul(p[2], q[3]), RMul(p[3], q[2])),
    RSub(RMul(p[3], q[1]), RMul(p[1], q[3])),
    RSub(RMul(p[1], q[2]), RMul(p[2], q[1]))>>

\* the binary search of torch.searchsorted(side="right") over positions
\* start..end-1 (0-based): an element that is not > val sends the search right
RECURSIVE upper_bound(_, _, _, _)
upper_bound(bd, val, start, end) ==
  IF start >= end THEN start
  ELSE LET mid == start + ((end - start) \div 2)
       IN  IF ~RGt(bd[mid + 1], val)
           THEN upper_bound(bd, val, mid + 1, end)
           ELSE upper_bound(bd, val, start, mid)

searchsorted(sorted, val) == upper_bound(sorted, val, 0, Len(sorted))

\* sample_ray_step_informed for one ray.  ts, weights: the T input steps and
\* their weights; e: the n_samples + 1 draws of Exponential(1).  The result is
\* the sequence of n_samples step values, or "IndexError" when gather is
\* handed a segment index outside the T + 1 lines.
sample_ray_step_informed(ts_in, tnear, tfar, weights, n_samples, e) ==
  LET T == Len(ts_in)
      wsum == cumsum(weights)[T]
      pmf == Tup([i \in 1..T |-> RDiv(weights[i], wsum)])
      cdf == <<RNeg(eps)>> \o cumsum(pmf) \o <<RAdd(One, eps)>>
      ts == <<tnear>> \o ts_in \o <<tfar>>
      xyone == Tup([k \in 1..(T + 2) |-> <<ts[k], cdf[k], One>>])
      lines == Tup([k \in 1..(T + 1) |-> cross(xyone[k + 1], xyone[k])])
      ecum == cumsum(e)
      u == Tup([j \in 1..n_samples |-> RDiv(ecum[j], ecum[n_samples + 1])])
      low == Tup([j \in 1..n_samples |-> searchsorted(cdf, u[j]) - 1])
      uline == Tup([j \in 1..n_samples |-> lines[low[j] + 1]])
      t == Tup([j \in 1..n_samples |->
              RDiv(RNeg(RAdd(RMul(uline[j][2], u[j]), uline[j][3])),
                   RAdd(uline[j][1], eps))])
  IN  IF \E j \in 1..n_samples : low[j] \notin 0..T
      THEN [status |-> "IndexError", t |-> <<>>, low |-> low]
      ELSE [status |-> "ok", t |-> t, low |-> low]

\* --------------------------------------------------- volumetric integrator

\* Densities are expressed in units of ln 2 per unit length, so that the
\* exponential of the integrator is exact: exp(-(k ln 2)) = 2^-k.  Exp2(x) is
\* exp(x ln 2) for x an integer, +-inf or NaN; the inputs of the model keep
\* every exponent on that lattice.
Exp2(x) ==
  IF IsNaN(x) THEN NaN
  ELSE IF IsInf(x) THEN (IF x.num < 0 THEN Zero ELSE Inf)
  ELSE IF x.den = 1
       THEN (IF x.num <= 0 THEN R(1, 2 ^ (-x.num)) ELSE R(2 ^ x.num, 1))
  ELSE CHOOSE v \in {} : TRUE

RECURSIVE RSum(_)
RSum(s) == IF s = <<>> THEN Zero ELSE RAdd(s[1], RSum(Tail(s)))

RClamp(x, lo, hi) ==
  IF IsNaN(x) THEN NaN
  ELSE IF RLt(x, lo) THEN lo
  ELSE IF RGt(x, hi) THEN hi
  ELSE x

\* density[i] * (ts[i+1] - ts[i]) * dnorm, the optical depth of step i; a
\* zero-width interval contributes nothing whatever its density
sigma_delta(density, ts_padded, dnorm) ==
  Tup([i \in 1..Len(density) |->
         LET delta == RSub(ts_padded[i + 1], ts_padded[i])
         IN  IF delta = Zero THEN Zero
             ELSE RMul(RMul(density[i], delta), dnorm)])

\* log-transmittance at the T + 1 step boundaries, relative to the start of
\* the integrated range (first entry 0)
log_transmittance(sd) ==
  IF sd = <<>> THEN <<Zero>>
  ELSE <<Zero>> \o cumsum(Tup([i \in 1..Len(sd) |-> RNeg(sd[i])]))

\* integration weights with the transmittance taken behind step i instead of
\* strictly before it
integration_weights_inclusive(sd, prev_log_transmittance) ==
  LET lt == log_transmittance(sd)
  IN  Tup([i \in 1..Len(sd) |->
             RMul(RSub(One, Exp2(RNeg(sd[i]))),
                  Exp2(RAdd(prev_log_transmittance, lt[i + 1])))])

\* weight of step i: its opacity 1 - exp(-sigma delta) times the transmittance
\* accumulated strictly before it, exp(prev_log_transmittance + sum_{j<i})
integration_weights(sd, prev_log_transmittance) ==
  LET lt == log_transmittance(sd)
  IN  Tup([i \in 1..Len(sd) |->
             RMul(RSub(One, Exp2(RNeg(sd[i]))),
                  Exp2(RAdd(prev_log_transmittance, lt[i])))])

\* functional.integrate_timesteps: the steps ts are padded with tfinal
integrate_timesteps(density, ts, dnorm, tfinal) ==
  integration_weights(sigma_delta(density, ts \o <<tfinal>>, dnorm), Zero)

color_map(color, weights) ==
  RSum(Tup([i \in 1..Len(weights) |-> RMul(color[i], weights[i])]))

alpha_map(weights) == RClamp(RSum(weights), Zero, One)

depth_map(ts, weights) ==
  RSum(Tup([i \in 1..Len(weights) |-> RMul(ts[i], weights[i])]))

\* radiance.integrate_path: the accumulated colour after each of the T steps
\* and the log-transmittance at the T + 1 step boundaries
integrate_path(color, density, ts_padded, prev_log_transmittance) ==
  LET sd == sigma_delta(density, ts_padded, One)
      w == integration_weights(sd, prev_log_transmittance)
  IN  [colors |-> cumsum(Tup([i \in 1..Len(w) |-> RMul(color[i], w[i])])),
       log_transm |-> log_transmittance(sd)]

\* the weights and maps of one active ray with the field samples swapped:
\* the colours are integrated as if they were the densities
ray_maps_density_from_color(ts_color, ts_density, ts, dnorm, tfar, ray_ext_factor) ==
  LET ts_weights == integrate_timesteps(ts_color, ts, dnorm,
                                        RMul(tfar, ray_ext_factor))
  IN  [weights |-> ts_weights,
       color |-> color_map(ts_color, ts_weights),
       alpha |-> alpha_map(ts_weights),
       depth |-> depth_map(ts, ts_weights)]

\* trace_uv for one active ray, from the field samples on: the integration
\* weights and the value of each map
ray_maps(ts_color, ts_density, ts, dnorm, tfar, ray_ext_factor) ==
  LET ts_weights == integrate_timesteps(ts_density, ts, dnorm,
                                        RMul(tfar, ray_ext_factor))
  IN  [weights |-> ts_weights,
       color |-> color_map(ts_color, ts_weights),
       alpha |-> alpha_map(ts_weights),
       depth |-> depth_map(ts, ts_weights)]

\* --------------------------------------- chunked integration (test loop)

Last(s) == s[Len(s)]

AddTo(s, x) == Tup([i \in 1..Len(s) |-> RAdd(s[i], x)])

\* one pass of the loop body without the carried colour
integrate_part_no_prev_color(st, lo, hi, final) ==
  LET r == integrate_path(SubSeq(st.color, lo, hi),
                          SubSeq(st.density, lo, hi),
                          SubSeq(st.ts_padded, lo, hi + 1),
                          st.prev_log_transm)
      colors == r.colors
      log_transm == AddTo(r.log_transm, st.prev_log_transm)
  IN  [st EXCEPT
         !.color_parts = @ \o colors,
         !.log_transm_parts =
            @ \o (IF final THEN log_transm
                  ELSE SubSeq(log_transm, 1, Len(log_transm) - 1)),
         !.prev_color = Last(colors),
         !.prev_log_transm = Last(log_transm)]

\* one pass of the loop body of test_radiance_integrate_path_in_parts over
\* the steps lo..hi (1-based, inclusive); final: the last part
integrate_part(st, lo, hi, final) ==
  LET r == integrate_path(SubSeq(st.color, lo, hi),
                          SubSeq(st.density, lo, hi),
                          SubSeq(st.ts_padded, lo, hi + 1),
                          st.prev_log_transm)
      colors == AddTo(r.colors, st.prev_color)
      log_transm == AddTo(r.log_transm, st.prev_log_transm)
  IN  [st EXCEPT
         !.color_parts = @ \o colors,
         !.log_transm_parts =
            @ \o (IF final THEN log_transm
                  ELSE SubSeq(log_transm, 1, Len(log_transm) - 1)),
         !.prev_color = Last(colors),
         !.prev_log_transm = Last(log_transm)]

\* ------------------------------------------------------------- actions

\* number of input steps of the informed sampler is 1..MaxSteps
MaxSteps == 2
\* weights are integers 0..MaxW
MaxW == 2
\* the informed sampler is asked for 1..MaxSamples samples
MaxSamples == 2
\* the exponential draws are integers 1..MaxE
MaxE == 2

IntSeq(s) == Tup([i \in 1..Len(s) |-> R(s[i], 1)])

\* rays with tnear <= tfar and the uniform draws of 1..MaxBins strata
InitStratified ==
  \E tnear \in 0..MaxT : \E tfar \in tnear..MaxT :
    \E n_bins \in 1..MaxBins : \E u \in SeqsOf(0..(UDen - 1), n_bins) :
      call = [op |-> "stratified", pc |-> "call", tnear |-> tnear,
              tfar |-> tfar, n_bins |-> n_bins, u |-> u, out |-> <<>>]

\* ascending input steps ts within [tnear, tfar], one weight per step and the
\* n_samples + 1 exponential draws of the sorted uniform sample
InitInformed ==
  \E n \in 1..MaxSteps : \E ts \in AscSeqs(0, MaxT, n) :
    \E tnear \in 0..ts[1] : \E tfar \in ts[n]..MaxT :
      \E w \in SeqsOf(0..MaxW, n) :
        \E n_samples \in 1..MaxSamples :
          \E e \in SeqsOf(1..MaxE, n_samples + 1) :
            call = [op |-> "informed", pc |-> "call", tnear |-> tnear,
                    tfar |-> tfar, ts |-> ts, weights |-> w,
                    n_samples |-> n_samples, e |-> e, out |-> <<>>]

CallStratified ==
  /\ call.op = "stratified" /\ call.pc = "call"
  /\ call' = [call EXCEPT !.pc = "returned",
                !.out = sample_ray_step_stratified(call.tnear, call.tfar,
                                                   call.n_bins, call.u)]

CallInformed ==
  /\ call.op = "informed" /\ call.pc = "call"
  /\ call' = [call EXCEPT !.pc = "returned",
                !.out = sample_ray_step_informed(
                          IntSeq(call.ts), R(call.tnear, 1), R(call.tfar, 1),
                          IntSeq(call.weights), call.n_samples,
                          IntSeq(call.e))]

NextStratified == CallStratified

SpecStratified == InitStratified /\ [][NextStratified]_vars

NextInformed == CallInformed

SpecInformed == InitInformed /\ [][NextInformed]_vars

\* --------------------------------------------------- integrator calls

\* a ray is integrated over 1..MaxPath steps
MaxPath == 3
\* the optical depth of a ray, in units of ln 2, is at most MaxDepth: the
\* powers of two of the exact exponential stay within the integers' width
MaxDepth == 20

\* densities in units of ln 2: empty space, a finite density, a hard surface
Densities == {Zero, One, Inf}

\* dnorm and ray_ext_factor (default 10.0; the trainer passes 1.0)
RayScales ==
  {[dnorm |-> 1, ray_ext_factor |-> 1], [dnorm |-> 2, ray_ext_factor |-> 1],
   [dnorm |-> 1, ray_ext_factor |-> 10]}

\* per-step colours (one channel): a rising and a falling ramp
ColorRamps(T) ==
  {Tup([i \in 1..T |-> R(i, 1)]), Tup([i \in 1..T |-> R(T + 1 - i, 2)])}

\* T steps with T + 1 ascending padded positions, cut into parts after the
\* steps of cuts
InitIntegrateParts ==
  \E T \in 2..MaxPath : \E ts \in AscSeqs(0, MaxT, T + 1) :
    \E d \in SeqsOf(Densities, T) : \E c \in ColorRamps(T) :
      \E cuts \in SUBSET (1..(T - 1)) :
        call = [op |-> "integrate_parts", pc |-> "full", color |-> c,
                density |-> d, ts_padded |-> IntSeq(ts), cuts |-> cuts,
                pos |-> 1, prev_color |-> Zero, prev_log_transm |-> Zero,
                color_parts |-> <<>>, log_transm_parts |-> <<>>,
                full |-> <<>>]

\* the T ascending steps of one active ray, ending at or before tfar
InitRayMaps ==
  \E T \in 1..MaxPath : \E ts \in AscSeqs(0, MaxT, T) :
    \E tfar \in ts[T]..MaxT : \E d \in SeqsOf(Densities, T) :
      \E c \in ColorRamps(T) : \E sc \in RayScales :
        /\ tfar * sc.ray_ext_factor * sc.dnorm <= MaxDepth
        /\ call = [op |-> "ray_maps", pc |-> "call", ts_color |-> c,
                   ts_density |-> d, ts |-> ts, tfar |-> tfar,
                   scale |-> sc, out |-> <<>>]

\* the single integrate_path call over all steps
IntegrateFull ==
  /\ call.op = "integrate_parts" /\ call.pc = "full"
  /\ call' = [call EXCEPT !.pc = "parts",
                !.full = integrate_path(call.color, call.density,
                                        call.ts_padded, Zero)]

\* the last step of the part that starts at step pos
PartEnd(cuts, pos, T) ==
  IF \E c \in cuts : c >= pos
  THEN CHOOSE c \in cuts : c >= pos /\ \A b \in cuts : b >= pos => c <= b
  ELSE T

\* one iteration of the loop over the parts
IntegratePart ==
  /\ call.op = "integrate_parts" /\ call.pc = "parts"
  /\ LET T == Len(call.density)
         hi == PartEnd(call.cuts, call.pos, T)
         st == integrate_part(call, call.pos, hi, hi = T)
     IN  call' = [st EXCEPT !.pos = hi + 1,
                            !.pc = IF hi = T THEN "done" ELSE "parts"]

CallRayMaps ==
  /\ call.op = "ray_maps" /\ call.pc = "call"
  /\ call' = [call EXCEPT !.pc = "returned",
                !.out = ray_maps(call.ts_color, call.ts_density,
                                 IntSeq(call.ts), R(call.scale.dnorm, 1),
                                 R(call.tfar, 1),
                                 R(call.scale.ray_ext_factor, 1))]

InitIntegrate == InitIntegrateParts \/ InitRayMaps

NextIntegrate == IntegrateFull \/ IntegratePart \/ CallRayMaps

SpecIntegrate == InitIntegrate /\ [][NextIntegrate]_vars

\* ------------------------------------------------ sequential uv generator

\* camera.make_uv_grid() viewed as (N, -1, 2): the pixels <<u, v>> of one view
\* in row-major order (the same for every view)
uv_grid(W, H) ==
  Tup([k \in 1..(W * H) |-> <<(k - 1) % W, (k - 1) \div W>>])

\* torch.split with every chunk one element too long: a chunk also holds the
\* first element of the next one
split_overlapping(s, M) ==
  Tup([k \in 1..((Len(s) + M - 1) \div M) |->
         SubSeq(s, (k - 1) * M + 1,
                IF k * M + 1 < Len(s) THEN k * M + 1 ELSE Len(s))])

\* torch.split(M) along the pixel axis: chunks of M, the last one shorter
\* when M does not divide the length
split(s, M) ==
  Tup([k \in 1..((Len(s) + M - 1) \div M) |->
         SubSeq(s, (k - 1) * M + 1,
                IF k * M < Len(s) THEN k * M ELSE Len(s))])

\* M = n_samples_per_cam or camera.size[0]: None and 0 fall back to the width
samples_per_cam(n_samples_per_cam, W) ==
  IF n_samples_per_cam = 0 THEN W ELSE n_samples_per_cam

\* the batches one pass of generate_sequential_uv_samples yields, in order
sequential_uv_batches(W, H, n_samples_per_cam) ==
  split(uv_grid(W, H), samples_per_cam(n_samples_per_cam, W))

\* ------------------------------------------------------------ renderer

\* A scene sc is the volume, camera and renderer configuration of a render:
\*   n_views, W, H    the camera: N views of W x H pixels
\*   layout           which rays hit the volume's bounding box
\*   field, filter    the radiance field and the spatial filter of the volume
\*   n_bins           strata of the renderer's stratified step sampler
\*   seed             the seed of the random stream (torch.random.manual_seed)
\*   n_rays_parallel  the chunking parameter of trace_maps
\*   which_maps       the requested maps

\* RadianceRenderer.ray_ext_factor, the default
RayExtFactor == 10

\* value k of the stream of uniform draws that follows manual_seed(seed), as
\* a numerator over UDen
rand(seed, k) == (k \div seed) % UDen

\* RayBundle.make_world_rays and intersect_aabb: the ray of view n through
\* pixel uv with its interval clipped to the box; a ray that misses the box
\* has an empty interval (tnear >= tfar, here 2 >= 1 or 2 >= 2)
world_ray(sc, n, uv) ==
  LET hit == CASE sc.layout = "all" -> TRUE
               [] sc.layout = "none" -> FALSE
               [] sc.layout = "checker" -> (uv[1] + uv[2] + n) % 2 = 0
               [] OTHER -> n = 1
  IN  IF hit
      THEN [n |-> n, uv |-> uv, tnear |-> 1, tfar |-> 2 + (uv[1] % 2),
            dnorm |-> 1]
      ELSE [n |-> n, uv |-> uv, tnear |-> 2, tfar |-> 1 + (uv[2] % 2),
            dnorm |-> 1]

\* RayBundle.active_mask: the clipped interval is not empty
active_mask(ray) == ray.tnear < ray.tfar

\* vol.spatial_filter.test at the point of ray n, uv at parameter t
spatial_filter_test(sc, pt) ==
  CASE sc.filter = "all" -> TRUE
    [] sc.filter = "far" -> RLeq(R(5, 4), pt.t)
    [] OTHER -> FALSE

\* vol.radiance_field.n_color_cond_dims > 0
with_harmonics(sc) == sc.field = "surface"

\* vol.radiance_field at one point: "empty" has density 0 everywhere and a
\* colour per pixel; "surface" is a hard surface (density inf from t = 3/2 on)
\* whose colour grows along the ray and depends on the view direction cond
radiance_field(sc, pt, cond) ==
  IF sc.field = "empty"
  THEN [color |-> R(1 + pt.uv[1] + 2 * pt.uv[2], 1), density |-> Zero]
  ELSE [color |-> RAdd(pt.t, cond),
        density |-> IF RLeq(R(3, 2), pt.t) THEN Inf ELSE Zero]

\* tensor.to(dtype): float32 holds the values of the model exactly, float16
\* holds the multiples of 1/2 and rounds to the nearest of them
to_dtype(x, dtype) ==
  IF dtype = "float32" \/ ~IsFinite(x) THEN x
  ELSE R((2 * 2 * x.num + x.den) \div (2 * x.den), 2)

\* number of TRUE entries of mask at positions 1..p
rank(mask, p) == Cardinality({q \in 1..p : mask[q]})

\* _query_radiance_field with the results written where the filter rejects
query_radiance_field_inverted(sc, rays, ts, ts_dtype, field_dtype) ==
  LET T == Len(ts)
      Rn == Len(rays)
      pts == Tup([p \in 1..(T * Rn) |->
                [n |-> rays[((p - 1) % Rn) + 1].n,
                 uv |-> rays[((p - 1) % Rn) + 1].uv,
                 t |-> ts[((p - 1) \div Rn) + 1][((p - 1) % Rn) + 1]]])
      mask == Tup([p \in 1..(T * Rn) |-> ~spatial_filter_test(sc, pts[p])])
      sel == SelectSeq([p \in 1..(T * Rn) |-> p], LAMBDA p : mask[p])
      out == Tup([i \in 1..Len(sel) |->
                radiance_field(sc, pts[sel[i]], R(pts[sel[i]].n, 1))])
  IN  [status |-> "ok",
       queried |-> [i \in 1..Len(sel) |-> pts[sel[i]]],
       mask |-> mask,
       out_color |->
         [b \in 1..T |-> [j \in 1..Rn |->
            LET p == (b - 1) * Rn + j
            IN  IF mask[p] THEN out[rank(mask, p)].color ELSE Zero]],
       out_density |->
         [b \in 1..T |-> [j \in 1..Rn |->
            LET p == (b - 1) * Rn + j
            IN  IF mask[p] THEN out[rank(mask, p)].density ELSE Zero]]]

\* _query_radiance_field(vol, rays, ts) for the Rn rays and the T x Rn step
\* values ts of dtype ts_dtype; the field returns tensors of field_dtype.
\* queried is the batch handed to the field.  Assigning the density under the
\* mask needs source and destination of one dtype (the code converts the
\* density to its own dtype, not to that of out_density).
query_radiance_field(sc, rays, ts, ts_dtype, field_dtype) ==
  LET T == Len(ts)
      Rn == Len(rays)
      \* the (T, Rn) sample points in row-major order
      pts == Tup([p \in 1..(T * Rn) |->
                [n |-> rays[((p - 1) % Rn) + 1].n,
                 uv |-> rays[((p - 1) % Rn) + 1].uv,
                 t |-> ts[((p - 1) \div Rn) + 1][((p - 1) % Rn) + 1]]])
      ray_ynm == Tup([p \in 1..(T * Rn) |-> R(pts[p].n, 1)])
      mask == Tup([p \in 1..(T * Rn) |-> spatial_filter_test(sc, pts[p])])
      sel == SelectSeq([p \in 1..(T * Rn) |-> p], LAMBDA p : mask[p])
      xyz_ndc_masked == Tup([i \in 1..Len(sel) |-> pts[sel[i]]])
      ray_ynm_masked == Tup([i \in 1..Len(sel) |->
                           IF with_harmonics(sc) THEN ray_ynm[sel[i]]
                           ELSE Zero])
      out == Tup([i \in 1..Len(sel) |->
                LET f == radiance_field(sc, xyz_ndc_masked[i],
                                        ray_ynm_masked[i])
                IN  [color |-> to_dtype(f.color, field_dtype),
                     density |-> to_dtype(f.density, field_dtype)]])
  IN  IF field_dtype # ts_dtype
      THEN [status |-> "RuntimeError", queried |-> xyz_ndc_masked,
            mask |-> mask, out_color |-> <<>>, out_density |-> <<>>]
      ELSE [status |-> "ok",
            queried |-> xyz_ndc_masked,
            mask |-> mask,
            out_color |->
              [b \in 1..T |-> [j \in 1..Rn |->
                 LET p == (b - 1) * Rn + j
                 IN  IF mask[p]
                     THEN to_dtype(out[rank(mask, p)].color, ts_dtype)
                     ELSE Zero]],
            out_density |->
              [b \in 1..T |-> [j \in 1..Rn |->
                 LET p == (b - 1) * Rn + j
                 IN  IF mask[p] THEN out[rank(mask, p)].density ELSE Zero]]]

\* the (N, M) batch positions <<n, m>> in row-major order
flat_positions(N, M) ==
  Tup([r \in 1..(N * M) |-> <<((r - 1) \div M) + 1, ((r - 1) % M) + 1>>])

\* the renderer's stratified step sampler on the Rn compacted rays: one
\* uniform_ fill of a (n_bins, Rn, 1) tensor takes n_bins * Rn consecutive
\* values of the stream, stratum by stratum; the result is (n_bins, Rn)
tsampler(sc, rays, rng) ==
  LET Rn == Len(rays)
      per_ray == Tup([j \in 1..Rn |->
                    sample_ray_step_stratified(
                      rays[j].tnear, rays[j].tfar, sc.n_bins,
                      [b \in 1..sc.n_bins |->
                         rand(sc.seed, rng + (b - 1) * Rn + (j - 1))])])
  IN  Tup([b \in 1..sc.n_bins |-> Tup([j \in 1..Rn |-> per_ray[j][b]])])

\* the value of map k for one ray
map_value(maps, k) ==
  CASE k = "color" -> maps.color
    [] k = "alpha" -> maps.alpha
    [] OTHER -> maps.depth

\* trace_uv that takes every ray of the batch as active, hit or not
trace_uv_unmasked(sc, uv, rng) ==
  LET N == sc.n_views
      M == Len(uv)
      pos == flat_positions(N, M)
      rays == Tup([r \in 1..(N * M) |->
                     world_ray(sc, pos[r][1], uv[pos[r][2]])])
      ts == tsampler(sc, rays, rng)
      q == query_radiance_field(sc, rays, ts, "float32", "float32")
      vals == Tup([j \in 1..(N * M) |->
                 ray_maps([b \in 1..sc.n_bins |-> q.out_color[b][j]],
                          [b \in 1..sc.n_bins |-> q.out_density[b][j]],
                          [b \in 1..sc.n_bins |-> ts[b][j]],
                          R(rays[j].dnorm, 1),
                          R(rays[j].tfar, 1), R(RayExtFactor, 1))])
  IN  [maps |-> [k \in sc.which_maps |->
                   [n \in 1..N |-> [m \in 1..M |->
                      map_value(vals[(n - 1) * M + m], k)]]],
       rng |-> rng + sc.n_bins * N * M,
       forwarded |-> rays,
       n_rays |-> N * M,
       status |-> q.status,
       calls |-> {"tsampler", "spatial_filter", "radiance_field",
                  "integrate_timesteps"}]

\* trace_uv without the early return for an empty set of active rays
trace_uv_no_early_return(sc, uv, rng) ==
  LET N == sc.n_views
      M == Len(uv)
      pos == flat_positions(N, M)
      rays == Tup([r \in 1..(N * M) |->
                     world_ray(sc, pos[r][1], uv[pos[r][2]])])
      mask == Tup([r \in 1..(N * M) |-> active_mask(rays[r])])
      sel == SelectSeq([r \in 1..(N * M) |-> r], LAMBDA r : mask[r])
      active_rays == Tup([j \in 1..Len(sel) |-> rays[sel[j]]])
      Rn == Len(active_rays)
      zeros == [k \in sc.which_maps |->
                  [n \in 1..N |-> [m \in 1..M |-> Zero]]]
      ts == tsampler(sc, active_rays, rng)
      q == query_radiance_field(sc, active_rays, ts, "float32", "float32")
      vals == Tup([j \in 1..Rn |->
                 ray_maps([b \in 1..sc.n_bins |-> q.out_color[b][j]],
                          [b \in 1..sc.n_bins |-> q.out_density[b][j]],
                          [b \in 1..sc.n_bins |-> ts[b][j]],
                          R(active_rays[j].dnorm, 1),
                          R(active_rays[j].tfar, 1), R(RayExtFactor, 1))])
  IN  [maps |-> [k \in sc.which_maps |->
                   [n \in 1..N |-> [m \in 1..M |->
                      LET r == (n - 1) * M + m
                      IN  IF mask[r]
                          THEN map_value(vals[rank(mask, r)], k)
                          ELSE Zero]]],
       rng |-> rng + sc.n_bins * Rn,
       forwarded |-> active_rays,
       n_rays |-> N * M,
       status |-> q.status,
       calls |-> {"tsampler", "spatial_filter", "radiance_field",
                  "integrate_timesteps"}]

\* trace_uv(vol, cam, uv) for a batch uv of M pixels per view, with the random
\* stream at position rng.  maps: the (N, M) value of each requested map;
\* rng: the stream position afterwards; forwarded: the rays handed to the
\* step sampler, the field query and the integrator; n_rays: rays of the
\* batch; status: "ok" or the error raised; calls: the collaborators invoked
trace_uv(sc, uv, rng) ==
  LET N == sc.n_views
      M == Len(uv)
      pos == flat_positions(N, M)
      rays == Tup([r \in 1..(N * M) |->
                     world_ray(sc, pos[r][1], uv[pos[r][2]])])
      mask == Tup([r \in 1..(N * M) |-> active_mask(rays[r])])
      sel == SelectSeq([r \in 1..(N * M) |-> r], LAMBDA r : mask[r])
      active_rays == Tup([j \in 1..Len(sel) |-> rays[sel[j]]])
      Rn == Len(active_rays)
      zeros == [k \in sc.which_maps |->
                  [n \in 1..N |-> [m \in 1..M |-> Zero]]]
      ts == tsampler(sc, active_rays, rng)
      q == query_radiance_field(sc, active_rays, ts, "float32", "float32")
      vals == Tup([j \in 1..Rn |->
                 ray_maps([b \in 1..sc.n_bins |-> q.out_color[b][j]],
                          [b \in 1..sc.n_bins |-> q.out_density[b][j]],
                          [b \in 1..sc.n_bins |-> ts[b][j]],
                          R(active_rays[j].dnorm, 1),
                          R(active_rays[j].tfar, 1), R(RayExtFactor, 1))])
  IN  IF Rn = 0
      THEN [maps |-> zeros, rng |-> rng, forwarded |-> <<>>,
            n_rays |-> N * M, status |-> "ok", calls |-> {}]
      ELSE [maps |-> [k \in sc.which_maps |->
                        [n \in 1..N |-> [m \in 1..M |->
                           LET r == (n - 1) * M + m
                           IN  IF mask[r]
                               THEN map_value(vals[rank(mask, r)], k)
                               ELSE Zero]]],
            rng |-> rng + sc.n_bins * Rn,
            forwarded |-> active_rays,
            n_rays |-> N * M,
            status |-> q.status,
            calls |-> {"tsampler", "spatial_filter", "radiance_field",
                       "integrate_timesteps"}]

\* torch.cat(parts, 1): per view, the parts' pixel values one after another
RECURSIVE cat_pixels(_, _)
cat_pixels(parts, N) ==
  IF parts = <<>> THEN [n \in 1..N |-> <<>>]
  ELSE LET rest == cat_pixels(Tail(parts), N)
       IN  [n \in 1..N |-> parts[1][n] \o rest[n]]

\* tensor.view(N, H, W, -1) of an (N, H * W) tensor: pixel (u, v) of view n
view_NHW(flat, N, W, H) ==
  [n \in 1..N |-> [v \in 0..(H - 1) |-> [u \in 0..(W - 1) |->
     flat[n][v * W + u + 1]]]]

\* ------------------------------------------------------ renderer calls

\* cameras have 1..MaxViews views
MaxViews == 2
\* images are W x H pixels with W, H in 1..MaxSide
MaxSide == 2
\* n_rays_parallel and n_samples_per_cam are at most MaxRaysParallel
MaxRaysParallel == 4
\* the sequential generator is asked for 0..MaxPasses passes
MaxPasses == 2

\* the state of a generate_sequential_uv_samples generator: passes finished
\* and batches yielded in the current pass
new_generator(W, H, n_samples_per_cam, n_passes) ==
  [W |-> W, H |-> H, n_samples_per_cam |-> n_samples_per_cam,
   n_passes |-> n_passes, pass |-> 0, k |-> 0]

gen_batches(g) == sequential_uv_batches(g.W, g.H, g.n_samples_per_cam)

gen_has_next(g) == g.pass < g.n_passes

gen_batch(g) == gen_batches(g)[g.k + 1]

gen_advance(g) ==
  IF g.k + 1 = Len(gen_batches(g))
  THEN [g EXCEPT !.pass = @ + 1, !.k = 0]
  ELSE [g EXCEPT !.k = @ + 1]

Scenes ==
  [n_views : 1..MaxViews, W : 1..MaxSide, H : 1..MaxSide,
   layout : {"all", "none", "checker", "view1"},
   field : {"empty", "surface"}, filter : {"all", "far"},
   n_bins : 1..MaxBins, seed : {1},
   n_rays_parallel : 1..MaxRaysParallel,
   which_maps : {{"color", "alpha"}, {"color", "alpha", "depth"}}]

InitRenderCall ==
  \E sc \in Scenes :
    call = [op |-> "render", pc |-> "full", sc |-> sc, rng |-> 0,
            full |-> <<>>, gen |-> <<>>, parts |-> <<>>, result |-> <<>>]

\* n_samples_per_cam = 0 stands for None as well
InitGenerate ==
  \E N \in 1..MaxViews : \E W \in 1..MaxSide : \E H \in 1..MaxSide :
    \E M \in 0..MaxRaysParallel : \E n_passes \in 0..MaxPasses :
      call = [op |-> "generate", pc |-> "iterating", n_views |-> N,
              gen |-> new_generator(W, H, M, n_passes), yielded |-> <<>>]

\* the step values handed to a direct field query
QueryTimes == {R(1, 1), R(7, 4)}

InitQuery ==
  \E f \in {"empty", "surface"} : \E flt \in {"all", "far", "none"} :
    \E td \in {"float16", "float32"} : \E fd \in {"float16", "float32"} :
      \E T \in 1..MaxBins : \E Rn \in 1..MaxViews :
        \E ts \in [1..T -> [1..Rn -> QueryTimes]] :
          call = [op |-> "query", pc |-> "call",
                  sc |-> [field |-> f, filter |-> flt],
                  rays |-> Tup([j \in 1..Rn |->
                                  [n |-> j, uv |-> <<j - 1, 0>>]]),
                  ts |-> ts, ts_dtype |-> td, field_dtype |-> fd,
                  out |-> <<>>]

\* the unchunked reference render of the test: seed, then one trace_uv over
\* the whole uv grid
RenderFull ==
  /\ call.op = "render" /\ call.pc = "full"
  /\ call' = [call EXCEPT !.pc = "start",
                !.full = trace_uv(call.sc, uv_grid(call.sc.W, call.sc.H), 0)]

\* seed again and enter trace_maps: create the generator
TraceMapsStart ==
  /\ call.op = "render" /\ call.pc = "start"
  /\ call' = [call EXCEPT !.pc = "loop", !.rng = 0,
                !.gen = new_generator(
                          call.sc.W, call.sc.H,
                          call.sc.n_rays_parallel \div call.sc.n_views, 1)]

\* one iteration of the loop of trace_maps: the next batch is traced and its
\* result appended to parts
TraceMapsChunk ==
  /\ call.op = "render" /\ call.pc = "loop"
  /\ gen_has_next(call.gen)
  /\ LET r == trace_uv(call.sc, gen_batch(call.gen), call.rng)
     IN  call' = [call EXCEPT !.parts = Append(@, r), !.rng = r.rng,
                              !.gen = gen_advance(call.gen)]

\* the generator is exhausted: concatenate the parts of every map
TraceMapsAssemble ==
  /\ call.op = "render" /\ call.pc = "loop"
  /\ ~gen_has_next(call.gen)
  /\ call' = [call EXCEPT !.pc = "done",
                !.result =
                   [k \in call.sc.which_maps |->
                      view_NHW(
                        cat_pixels([i \in 1..Len(call.parts) |->
                                      call.parts[i].maps[k]],
                                   call.sc.n_views),
                        call.sc.n_views, call.sc.W, call.sc.H)]]

\* next() on the sequential generator yields a batch
GenNext ==
  /\ call.op = "generate" /\ call.pc = "iterating"
  /\ gen_has_next(call.gen)
  /\ call' = [call EXCEPT !.yielded = Append(@, gen_batch(call.gen)),
                          !.gen = gen_advance(call.gen)]

\* next() on the exhausted generator ends the iteration
GenStop ==
  /\ call.op = "generate" /\ call.pc = "iterating"
  /\ ~gen_has_next(call.gen)
  /\ call' = [call EXCEPT !.pc = "exhausted"]

CallQuery ==
  /\ call.op = "query" /\ call.pc = "call"
  /\ call' = [call EXCEPT !.pc = "returned",
                !.out = query_radiance_field(call.sc, call.rays, call.ts,
                                             call.ts_dtype, call.field_dtype)]

InitRender == InitRenderCall \/ InitGenerate \/ InitQuery

NextRender ==
  \/ RenderFull
  \/ TraceMapsStart
  \/ TraceMapsChunk
  \/ TraceMapsAssemble
  \/ GenNext
  \/ GenStop
  \/ CallQuery

SpecRender == InitRender /\ [][NextRender]_vars

\* ------------------------------------------------- sampler properties

Returned(op) == call.op = op /\ call.pc = "returned"

Ascending(t) == \A i \in 1..(Len(t) - 1) : RLeq(t[i], t[i + 1])

StrictlyAscending(t) == \A i \in 1..(Len(t) - 1) : RLt(t[i], t[i + 1])

Within(t, tnear, tfar) ==
  \A i \in 1..Len(t) : RLeq(R(tnear, 1), t[i]) /\ RLeq(t[i], R(tfar, 1))

\* C1 as stated: for any tnear <= tfar and any offsets in [0,1) the stratified
\* samples are strictly ascending along the step axis and lie in [tnear, tfar].
C1_StrictlyAscendingAlways ==
  Returned("stratified") =>
    /\ StrictlyAscending(call.out)
    /\ Within(call.out, call.tnear, call.tfar)

\* C1 amended: the stratified samples lie in [tnear, tfar] and are ascending;
\* they are strictly ascending when tnear < tfar, and all equal when
\* tnear = tfar.
C1_AscendingWithin ==
  Returned("stratified") =>
    /\ Within(call.out, call.tnear, call.tfar)
    /\ Ascending(call.out)
    /\ (call.tnear < call.tfar => StrictlyAscending(call.out))
    /\ (call.tnear = call.tfar =>
          \A i \in 1..call.n_bins : call.out[i] = R(call.tnear, 1))

\* a stratified call on a non-empty interval whose first offset is the largest
\* and whose second offset is the smallest one drawn
C1_Witness ==
  /\ Returned("stratified")
  /\ call.tnear < call.tfar
  /\ call.n_bins >= 2
  /\ call.u[1] = UDen - 1
  /\ call.u[2] = 0

\* lower edge of stratum i (0-based) of n_bins equal strata of [tnear, tfar]
StratumEdge(tnear, tfar, n_bins, i) ==
  RAdd(R(tnear, 1), RMul(R(i, n_bins), R(tfar - tnear, 1)))

\* C14: for a ray with tnear < tfar, output sample i (0-based) of the
\* stratified sampler lies in the i-th equal-width stratum
\* [tnear + i*(tfar-tnear)/n_bins, tnear + (i+1)*(tfar-tnear)/n_bins).
C14_OneSamplePerStratum ==
  (Returned("stratified") /\ call.tnear < call.tfar) =>
    /\ Len(call.out) = call.n_bins
    /\ \A i \in 0..(call.n_bins - 1) :
         /\ RLeq(StratumEdge(call.tnear, call.tfar, call.n_bins, i),
                 call.out[i + 1])
         /\ RLt(call.out[i + 1],
                StratumEdge(call.tnear, call.tfar, call.n_bins, i + 1))

\* a call on a non-empty interval with several strata where one sample sits
\* on the lower edge of its stratum and another one strictly inside its own
C14_Witness ==
  /\ Returned("stratified")
  /\ call.tnear < call.tfar
  /\ call.n_bins >= 2
  /\ \E i, j \in 1..call.n_bins :
       /\ i # j
       /\ call.u[i] = 0
       /\ call.u[j] > 0
       /\ call.out[i] =
            StratumEdge(call.tnear, call.tfar, call.n_bins, i - 1)

\* C15: for a ray with tfar = tnear every one of the n_bins stratified
\* samples equals tnear, whatever the offsets drawn.
C15_DegenerateIntervalCoincides ==
  (Returned("stratified") /\ call.tfar = call.tnear) =>
    /\ Len(call.out) = call.n_bins
    /\ \A i \in 1..call.n_bins : call.out[i] = R(call.tnear, 1)

\* a degenerate ray away from the origin with several strata and offsets
\* that differ between the strata
C15_Witness ==
  /\ Returned("stratified")
  /\ call.tfar = call.tnear
  /\ call.tnear > 0
  /\ call.n_bins >= 2
  /\ call.u[1] # call.u[2]
  /\ call.out[1] = call.out[2]

WeightSum(w) == cumsum(IntSeq(w))[Len(w)].num

\* C2: for ascending input steps within [tnear, tfar] and non-negative weights
\* of positive sum, the informed sampler returns n_samples values that all lie
\* within [tnear, tfar] and are ascending along the sample axis.
C2_InformedWithinAscending ==
  (Returned("informed") /\ WeightSum(call.weights) > 0) =>
    /\ call.out.status = "ok"
    /\ Len(call.out.t) = call.n_samples
    /\ Within(call.out.t, call.tnear, call.tfar)
    /\ Ascending(call.out.t)

\* the T + 2 CDF knots of the informed sampler: the running sum of the
\* normalised weights between the sentinels -eps and 1 + eps
informed_cdf(weights) ==
  LET T == Len(weights)
      wsum == cumsum(weights)[T]
  IN  <<RNeg(eps)>> \o cumsum(Tup([i \in 1..T |-> RDiv(weights[i], wsum)]))
        \o <<RAdd(One, eps)>>

\* the n_samples sorted uniform samples: the first n_samples partial sums of
\* the exponential draws over their total
informed_u(e, n_samples) ==
  LET ecum == cumsum(e)
  IN  Tup([j \in 1..n_samples |-> RDiv(ecum[j], ecum[n_samples + 1])])

\* low addresses one of the T + 1 segments and u lies in its CDF range
InSegment(cdf, u, low) ==
  /\ low \in 0..(Len(cdf) - 2)
  /\ RLeq(cdf[low + 1], u)
  /\ RLt(u, cdf[low + 2])

\* C16: for every generated uniform sample u the segment index
\* low = searchsorted(cdf, u, right) - 1 over the T + 2 CDF knots satisfies
\* 0 <= low <= T and cdf[low] <= u < cdf[low + 1].
C16_SegmentIndexInRange ==
  Returned("informed") =>
    LET cdf == informed_cdf(IntSeq(call.weights))
        u == informed_u(IntSeq(call.e), call.n_samples)
    IN  /\ Len(call.out.low) = call.n_samples
        /\ \A j \in 1..call.n_samples :
             /\ RLt(Zero, u[j]) /\ RLt(u[j], One)
             /\ InSegment(cdf, u[j], call.out.low[j])

\* C16 restricted to weights of positive sum: the segment index is in 0..T
\* and u lies in the CDF range of its segment.
C16_SegmentIndexInRangePositive ==
  (Returned("informed") /\ WeightSum(call.weights) > 0) =>
    LET cdf == informed_cdf(IntSeq(call.weights))
        u == informed_u(IntSeq(call.e), call.n_samples)
    IN  /\ Len(call.out.low) = call.n_samples
        /\ \A j \in 1..call.n_samples :
             /\ RLt(Zero, u[j]) /\ RLt(u[j], One)
             /\ InSegment(cdf, u[j], call.out.low[j])

\* a sample that falls exactly on an inner CDF knot and one strictly inside
\* a segment, with a zero-weight step among the inputs
C16_Witness ==
  /\ Returned("informed")
  /\ WeightSum(call.weights) > 0
  /\ LET cdf == informed_cdf(IntSeq(call.weights))
         u == informed_u(IntSeq(call.e), call.n_samples)
     IN  /\ \E j \in 1..call.n_samples :
              \E k \in 2..(Len(cdf) - 1) : u[j] = cdf[k]
         /\ \E j \in 1..call.n_samples :
              \A k \in 1..Len(cdf) : u[j] # cdf[k]

\* C10: called with weights that sum to zero the informed sampler signals an
\* error and returns no step set holding NaN.
C10_ZeroWeightsFailFast ==
  (Returned("informed") /\ WeightSum(call.weights) = 0) =>
    /\ call.out.status # "ok"
    /\ \A j \in 1..Len(call.out.t) : ~IsNaN(call.out.t[j])

\* ----------------------------------------------- integrator properties

\* C3: integrating the steps part by part, each call seeded with the previous
\* part's final log-transmittance and its colours offset by the previous
\* part's final colour, gives at every step the accumulated colour and at
\* every step boundary the log-transmittance of one call over all steps.
C3_ChunkedEqualsFull ==
  (call.op = "integrate_parts" /\ call.pc = "done") =>
    /\ call.color_parts = call.full.colors
    /\ call.log_transm_parts = call.full.log_transm

\* a finished integration in at least two parts whose later part starts
\* behind a step of positive optical depth and adds colour itself
C3_Witness ==
  /\ call.op = "integrate_parts" /\ call.pc = "done"
  /\ call.cuts # {}
  /\ \E k \in call.cuts :
       /\ call.full.log_transm[k + 1] # Zero
       /\ IsFinite(call.full.log_transm[k + 1])
       /\ Last(call.full.colors) # call.full.colors[k]
       /\ call.full.colors[k] # Zero

AllZero(s) == \A i \in 1..Len(s) : s[i] = Zero

\* C5: the alpha value of a ray is in [0,1]; a ray whose density is zero at
\* every step has all weights zero and alpha 0 and colour 0.
C5_AlphaConservation ==
  Returned("ray_maps") =>
    /\ RLeq(Zero, call.out.alpha) /\ RLeq(call.out.alpha, One)
    /\ (AllZero(call.ts_density) =>
          /\ AllZero(call.out.weights)
          /\ call.out.alpha = Zero
          /\ call.out.color = Zero)

\* a ray of zero density with non-zero colours has been integrated
C5_WitnessZeroDensity ==
  /\ Returned("ray_maps")
  /\ Len(call.ts) >= 2
  /\ AllZero(call.ts_density)
  /\ \A i \in 1..Len(call.ts) : call.ts_color[i] # Zero
  /\ call.ts[1] < call.tfar

\* density 0 at the steps before step k and infinite from step k onwards
HardSurface(density, k) ==
  /\ k \in 1..Len(density)
  /\ \A i \in 1..Len(density) :
       density[i] = (IF i < k THEN Zero ELSE Inf)

\* the accumulated colours of a ray whose whole weight sits on step k
AllWeightOn(colors, color, k) ==
  \A i \in 1..Len(colors) : colors[i] = (IF i < k THEN Zero ELSE color[k])

\* C13 as stated: for a ray with density 0 before a plane and infinite density
\* from the plane onwards, the first step at or beyond the plane gets weight 1
\* and every other step weight 0, so the integrated colour at the end of the
\* ray is the colour sampled at that step.
C13_HardSurfaceAnyWidth ==
  (call.op = "integrate_parts" /\ call.pc # "full") =>
    \A k \in 1..Len(call.density) :
      HardSurface(call.density, k) =>
        /\ AllWeightOn(call.full.colors, call.color, k)
        /\ Last(call.full.colors) = call.color[k]

\* C13 amended: when the first step at or beyond the plane has positive width
\* it gets weight 1 and every other step weight 0, so the integrated colour at
\* the end of the ray is the colour sampled at that step, for any step count.
C13_HardSurface ==
  (call.op = "integrate_parts" /\ call.pc # "full") =>
    \A k \in 1..Len(call.density) :
      (HardSurface(call.density, k)
         /\ RLt(call.ts_padded[k], call.ts_padded[k + 1])) =>
        /\ AllWeightOn(call.full.colors, call.color, k)
        /\ Last(call.full.colors) = call.color[k]

\* a ray that crosses the plane behind its first step and has further steps
\* beyond it, the last of them of zero width as in the padded test ray
C13_Witness ==
  /\ call.op = "integrate_parts" /\ call.pc # "full"
  /\ \E k \in 2..(Len(call.density) - 1) :
       /\ HardSurface(call.density, k)
       /\ RLt(call.ts_padded[k], call.ts_padded[k + 1])
       /\ call.color[k] # Last(call.color)
  /\ call.ts_padded[Len(call.density)] = Last(call.ts_padded)

\* ------------------------------------------------- renderer properties

\* the batch trace_maps handed to trace_uv for its i-th part
PartUV(i) == gen_batches(call.gen)[i]

\* res is the result of trace_uv(sc, uv): every forwarded ray is active and
\* the entries of the inactive rays are zero in every requested map
InactiveUntouched(sc, uv, res) ==
  /\ \A j \in 1..Len(res.forwarded) : active_mask(res.forwarded[j])
  /\ \A k \in sc.which_maps : \A n \in 1..sc.n_views : \A m \in 1..Len(uv) :
       ~active_mask(world_ray(sc, n, uv[m])) => res.maps[k][n][m] = Zero

\* C4: for a fixed seed, the maps trace_maps assembles from the chunks of the
\* sequential generator equal, pixel for pixel, the maps of one trace_uv call
\* over the whole uv grid.
C4_ChunkedEqualsUnchunked ==
  (call.op = "render" /\ call.pc = "done") =>
    \A k \in call.sc.which_maps :
      call.result[k] = view_NHW(call.full.maps[k], call.sc.n_views,
                                call.sc.W, call.sc.H)

\* C6: in every trace_uv call (the one over the whole grid and the one of
\* each chunk) only active rays reach the step sampler, the field query and
\* the integrator, and the entry of every inactive ray is zero in every
\* requested map.
C6_InactiveRaysUntouched ==
  call.op = "render" =>
    /\ call.pc # "full" =>
         InactiveUntouched(call.sc, uv_grid(call.sc.W, call.sc.H), call.full)
    /\ \A i \in 1..Len(call.parts) :
         InactiveUntouched(call.sc, PartUV(i), call.parts[i])

\* a chunk with an inactive ray next to an active ray whose entry was written
C6_Witness ==
  /\ call.op = "render"
  /\ \E i \in 1..Len(call.parts) :
       /\ \E n \in 1..call.sc.n_views : \E m \in 1..Len(PartUV(i)) :
            ~active_mask(world_ray(call.sc, n, PartUV(i)[m]))
       /\ \E n \in 1..call.sc.n_views : \E m \in 1..Len(PartUV(i)) :
            /\ active_mask(world_ray(call.sc, n, PartUV(i)[m]))
            /\ call.parts[i].maps["alpha"][n][m] # Zero

\* C9: every chunk trace_maps hands to trace_uv has at most n_rays_parallel
\* rays.
C9_ChunkWithinRaysParallel ==
  call.op = "render" =>
    \A i \in 1..Len(call.parts) :
      call.parts[i].n_rays <= call.sc.n_rays_parallel

\* the sample point of step b on ray j of a direct field query
QueryPoint(b, j) ==
  [n |-> call.rays[j].n, uv |-> call.rays[j].uv, t |-> call.ts[b][j]]

\* what the field returns for a sample point of the query
FieldAt(pt) ==
  LET f == radiance_field(call.sc, pt,
                          IF with_harmonics(call.sc) THEN R(pt.n, 1)
                          ELSE Zero)
  IN  [color |-> to_dtype(f.color, call.field_dtype),
       density |-> to_dtype(f.density, call.field_dtype)]

\* C7: when _query_radiance_field returns, the field was invoked on exactly
\* the samples the spatial filter accepts (in row-major order); a rejected
\* sample has colour 0 and density 0, an accepted sample has the colour and
\* density the field returned for it, at its own (step, ray) position.
C7_QueryFilteredExactly ==
  (Returned("query") /\ call.out.status = "ok") =>
    LET T == Len(call.ts)
        Rn == Len(call.rays)
        pts == [p \in 1..(T * Rn) |->
                  QueryPoint(((p - 1) \div Rn) + 1, ((p - 1) % Rn) + 1)]
    IN  /\ call.out.queried =
             SelectSeq(pts, LAMBDA pt : spatial_filter_test(call.sc, pt))
        /\ \A b \in 1..T : \A j \in 1..Rn :
             IF spatial_filter_test(call.sc, QueryPoint(b, j))
             THEN /\ call.out.out_color[b][j] = FieldAt(QueryPoint(b, j)).color
                  /\ call.out.out_density[b][j] =
                       FieldAt(QueryPoint(b, j)).density
             ELSE /\ call.out.out_color[b][j] = Zero
                  /\ call.out.out_density[b][j] = Zero

\* a query that returned with a rejected sample and an accepted sample of
\* non-zero density
C7_Witness ==
  /\ Returned("query") /\ call.out.status = "ok"
  /\ \E b \in 1..Len(call.ts) : \E j \in 1..Len(call.rays) :
       ~spatial_filter_test(call.sc, QueryPoint(b, j))
  /\ \E b \in 1..Len(call.ts) : \E j \in 1..Len(call.rays) :
       /\ spatial_filter_test(call.sc, QueryPoint(b, j))
       /\ call.out.out_density[b][j] # Zero

\* the elements of the sequences of seqs, one after another
RECURSIVE Flatten(_)
Flatten(seqs) ==
  IF seqs = <<>> THEN <<>> ELSE Head(seqs) \o Flatten(Tail(seqs))

\* C8: an exhausted generate_sequential_uv_samples generator has yielded
\* n_passes passes; the batches of a pass, concatenated in yield order, are
\* the row-major pixel grid, every pixel is in exactly one of them, and every
\* batch has M pixels except possibly the last of the pass, which has 1..M.
C8_SequentialPartition ==
  (call.op = "generate" /\ call.pc = "exhausted") =>
    LET g == call.gen
        M == IF g.n_samples_per_cam = 0 THEN g.W ELSE g.n_samples_per_cam
        nb == (g.W * g.H + M - 1) \div M
        batch(p, k) == call.yielded[(p - 1) * nb + k]
    IN  /\ Len(call.yielded) = g.n_passes * nb
        /\ \A p \in 1..g.n_passes :
             /\ Flatten([k \in 1..nb |-> batch(p, k)]) = uv_grid(g.W, g.H)
             /\ \A u \in 0..(g.W - 1) : \A v \in 0..(g.H - 1) :
                  Cardinality({<<k, i>> \in (1..nb) \X (1..M) :
                                 /\ i <= Len(batch(p, k))
                                 /\ batch(p, k)[i] = <<u, v>>}) = 1
             /\ \A k \in 1..(nb - 1) : Len(batch(p, k)) = M
             /\ Len(batch(p, nb)) \in 1..M

\* an exhausted generator after more than one pass of more than one batch,
\* the last batch of a pass shorter than the others
C8_Witness ==
  /\ call.op = "generate" /\ call.pc = "exhausted"
  /\ call.gen.n_passes > 1
  /\ Len(call.yielded) > call.gen.n_passes
  /\ Len(call.yielded[Len(call.yielded)]) < Len(call.yielded[1])

\* ------------------------------------------------- empty active set

\* no ray of the batch uv (every view) hits the bounding box
NoActiveRay(sc, uv) ==
  \A n \in 1..sc.n_views : \A m \in 1..Len(uv) :
    ~active_mask(world_ray(sc, n, uv[m]))

\* res is what trace_uv(sc, uv) returns for an empty active set when the
\* random stream was at position rng: no error, no collaborator invoked, no
\* uniform draw taken, and every requested map is an (N, M) tensor of zeros
EmptyResult(sc, uv, rng, res) ==
  /\ res.status = "ok"
  /\ res.calls = {}
  /\ res.forwarded = <<>>
  /\ res.rng = rng
  /\ DOMAIN res.maps = sc.which_maps
  /\ \A k \in sc.which_maps :
       /\ Len(res.maps[k]) = sc.n_views
       /\ \A n \in 1..sc.n_views :
            /\ Len(res.maps[k][n]) = Len(uv)
            /\ \A m \in 1..Len(uv) : res.maps[k][n][m] = Zero

\* the position of the random stream when trace_maps starts its i-th chunk
RngBefore(i) == IF i = 1 THEN 0 ELSE call.parts[i - 1].rng

\* C11: a trace_uv call none of whose rays intersects the bounding box raises
\* no error, invokes neither the step sampler nor the spatial filter nor the
\* radiance field, and returns every requested map with the shape of the
\* pixel batch and all entries zero.
C11_EmptyActiveSet ==
  call.op = "render" =>
    /\ (call.pc # "full"
          /\ NoActiveRay(call.sc, uv_grid(call.sc.W, call.sc.H))) =>
         EmptyResult(call.sc, uv_grid(call.sc.W, call.sc.H), 0, call.full)
    /\ \A i \in 1..Len(call.parts) :
         NoActiveRay(call.sc, PartUV(i)) =>
           EmptyResult(call.sc, PartUV(i), RngBefore(i), call.parts[i])

\* a chunk without an active ray was traced after a chunk with active rays
C11_Witness ==
  /\ call.op = "render"
  /\ \E i \in 2..Len(call.parts) :
       /\ NoActiveRay(call.sc, PartUV(i))
       /\ ~NoActiveRay(call.sc, PartUV(i - 1))
       /\ call.parts[i - 1].rng > 0

\* ------------------------------------------------------------ training

\* train_max_epochs is 0..MaxEpochs
MaxEpochs == 2
\* the train dataloader yields 0..MaxBatches batches per epoch
MaxBatches == 2
\* n_acc_steps = n_rays_batch // n_rays_minibatch is 0..MaxAcc
MaxAcc == 2
\* val_interval is 1..MaxValInterval
MaxValInterval == 2
\* loss.item() and val_min_loss are 0..MaxLoss (in units of a loss quantum)
MaxLoss == 1

\* A run st of NeRFTrainer.train:
\*   renderer          "given" or "default" (the renderer argument is None)
\*   n_acc_steps, val_interval, val_min_loss, train_max_epochs, n_batches
\*   epoch, batch      position of the two loops
\*   global_step, loss_acc, postfix_loss (pbar_postfix["loss"])
\*   opt_steps         optimizer steps completed
\*   in_render         the render call in flight: "none", "trace_uv"
\*   filter_version    number of spatial_filter.update calls so far
\*   filter_seen       filter_version when the last render started

\* the fwd_bwd_fn call whose trace_uv has not returned when the loop goes on
fwd_bwd_return_in_flight(st, loss) ==
  [st EXCEPT !.pc = "acc_check", !.loss_acc = @ + loss]

\* loss = fwd_bwd_fn(train_cam, uv, rgba); loss_acc += loss.item(): the
\* trace_uv of the closure has returned
fwd_bwd_return(st, loss) ==
  [st EXCEPT !.pc = "acc_check", !.in_render = "none", !.loss_acc = @ + loss]

\* the block under (global_step + 1) % n_acc_steps == 0: optimizer step,
\* spatial_filter.update, the accumulated loss is recorded and reset
optimizer_step(st) ==
  [st EXCEPT !.opt_steps = @ + 1,
             !.filter_version = @ + 1,
             !.postfix_loss = st.loss_acc,
             !.loss_acc = 0]

\* lines 236-248: n_acc_steps = 0 makes the modulo raise
acc_check(st) ==
  IF st.n_acc_steps = 0 THEN [st EXCEPT !.pc = "ZeroDivisionError"]
  ELSE IF (st.global_step + 1) % st.n_acc_steps = 0
       THEN [optimizer_step(st) EXCEPT !.pc = "val_check"]
  ELSE [st EXCEPT !.pc = "val_check"]

\* the condition of line 250
validation_due(st) ==
  /\ (st.global_step + 1) % st.val_interval = 0
  /\ st.postfix_loss <= st.val_min_loss

\* lines 250-262: validation_step is invoked, or the step ends
val_check(st) ==
  IF validation_due(st) THEN [st EXCEPT !.pc = "validation"]
  ELSE [st EXCEPT !.pc = "loop", !.global_step = @ + 1, !.batch = @ + 1]

InitTrain ==
  \E renderer \in {"given", "default"} : \E n_acc_steps \in 0..MaxAcc :
    \E val_interval \in 1..MaxValInterval : \E val_min_loss \in 0..MaxLoss :
      \E train_max_epochs \in 0..MaxEpochs : \E n_batches \in 0..MaxBatches :
        call = [op |-> "train", pc |-> "start", renderer |-> renderer,
                n_acc_steps |-> n_acc_steps, val_interval |-> val_interval,
                val_min_loss |-> val_min_loss,
                train_max_epochs |-> train_max_epochs,
                n_batches |-> n_batches, epoch |-> 0, batch |-> 0,
                global_step |-> 0, loss_acc |-> 0, postfix_loss |-> 0,
                opt_steps |-> 0, in_render |-> "none", filter_version |-> 0,
                filter_seen |-> 0]

\* lines 187-225: without a renderer argument the default renderer is built
\* with a keyword RadianceRenderer.__init__ does not have
TrainStart ==
  /\ call.op = "train" /\ call.pc = "start"
  /\ call' = [call EXCEPT
                !.pc = IF call.renderer = "default" THEN "TypeError"
                       ELSE IF call.train_max_epochs = 0 THEN "returned"
                       ELSE "loop"]

\* the dataloader of the epoch is exhausted
TrainEpochEnd ==
  /\ call.op = "train" /\ call.pc = "loop"
  /\ call.batch = call.n_batches
  /\ call' = [call EXCEPT
                !.epoch = @ + 1, !.batch = 0,
                !.pc = IF call.epoch + 1 = call.train_max_epochs
                       THEN "returned" ELSE "loop"]

\* lines 228-230: the training time has elapsed
TrainMaxTime ==
  /\ call.op = "train" /\ call.pc = "loop"
  /\ call.batch < call.n_batches
  /\ call' = [call EXCEPT !.pc = "returned"]

\* lines 231-233 and 90: fwd_bwd_fn starts its trace_uv
FwdBwdStart ==
  /\ call.op = "train" /\ call.pc = "loop"
  /\ call.batch < call.n_batches
  /\ call' = [call EXCEPT !.pc = "in_trace_uv", !.in_render = "trace_uv",
                          !.filter_seen = call.filter_version]

\* lines 90-102 and 233-234: trace_uv returns, the loss is accumulated
FwdBwdReturn ==
  /\ call.op = "train" /\ call.pc = "in_trace_uv"
  /\ \E loss \in 0..MaxLoss : call' = fwd_bwd_return(call, loss)

AccCheck ==
  /\ call.op = "train" /\ call.pc = "acc_check"
  /\ call' = acc_check(call)

ValCheck ==
  /\ call.op = "train" /\ call.pc = "val_check"
  /\ call' = val_check(call)

\* validation_step: render_images calls trace_maps with the keyword
\* n_samples_per_cam, which trace_maps does not have
ValidationStep ==
  /\ call.op = "train" /\ call.pc = "validation"
  /\ call' = [call EXCEPT !.pc = "TypeError"]

NextTrain ==
  \/ TrainStart
  \/ TrainEpochEnd
  \/ TrainMaxTime
  \/ FwdBwdStart
  \/ FwdBwdReturn
  \/ AccCheck
  \/ ValCheck
  \/ ValidationStep

SpecTrain == InitTrain /\ [][NextTrain]_vars

\* C12: spatial_filter.update runs only between render calls: every step of
\* train that changes the filter is taken after the trace_uv of the
\* forward/backward pass has returned, with no render in flight before or
\* after it, and no step taken while a render is in flight changes the
\* filter (rendering only reads it through test()).
C12_FilterUpdateBetweenRenders ==
  [][call.op = "train" =>
       /\ call'.filter_version # call.filter_version =>
            /\ call.pc = "acc_check"
            /\ call.in_render = "none" /\ call'.in_render = "none"
       /\ (call.in_render # "none" \/ call'.in_render # "none") =>
            call'.filter_version = call.filter_version]_vars

\* a render is in flight after the filter was updated at least twice
C12_Witness ==
  /\ call.op = "train"
  /\ call.in_render = "trace_uv"
  /\ call.filter_version >= 2
  /\ call.filter_seen = call.filter_version

\* C19: validation_step is invoked only at steps with
\* (global_step + 1) % val_interval = 0, only after an optimizer step has
\* recorded a loss, and only when that recorded loss is <= val_min_loss.
C19_ValidationAfterRecordedLoss ==
  (call.op = "train" /\ call.pc = "validation") =>
    /\ (call.global_step + 1) % call.val_interval = 0
    /\ call.opt_steps > 0
    /\ call.postfix_loss <= call.val_min_loss

\* ------------------------------------------------ random uv generator

\* bounds = 1.0 - 1e-7 = (BoundsDen - 1) / BoundsDen
BoundsDen == 10000000

bounds == R(BoundsDen - 1, BoundsDen)

\* normalised coordinates uniform_(-bounds, bounds) can draw: both ends of
\* the range and values inside it
UvnValues == {RNeg(bounds), R(-1, 2), Zero, bounds}

\* torch.round: the nearest integer, a tie going to the even one
RRound(x) ==
  LET fl == x.num \div x.den
      rem2 == 2 * (x.num - fl * x.den)
  IN  IF rem2 < x.den THEN R(fl, 1)
      ELSE IF rem2 > x.den THEN R(fl + 1, 1)
      ELSE IF fl % 2 = 0 THEN R(fl, 1)
      ELSE R(fl + 1, 1)

\* the pixel coordinate without the half-pixel shift: (uvn + 1) * size * 0.5
uv_of_uvn_uncentered(uvn, size, subpixel) ==
  LET uv == RMul(RMul(RAdd(uvn, One), R(size, 1)), R(1, 2))
  IN  IF subpixel THEN uv ELSE RRound(uv)

\* one coordinate of uv = (uvn + 1.0) * camera.size * 0.5 - 0.5, rounded when
\* subpixel coordinates are not allowed
uv_of_uvn(uvn, size, subpixel) ==
  LET uv == RSub(RMul(RMul(RAdd(uvn, One), R(size, 1)), R(1, 2)), R(1, 2))
  IN  IF subpixel THEN uv ELSE RRound(uv)

\* the batch one pass of the generator's loop yields for the draws uvn, for
\* one view: M coordinates <<u, v>>
random_uv_batch(uvn, W, H, subpixel) ==
  Tup([m \in 1..Len(uvn) |->
         <<uv_of_uvn(uvn[m][1], W, subpixel),
           uv_of_uvn(uvn[m][2], H, subpixel)>>])

\* ---------------------------------------------------- MultiViewDataset

\* MultiViewDataset.__init__; n_rays_per_view = 0 stands for None
dataset_init(W, H, n_rays_per_view, random, subpixel) ==
  [W |-> W, H |-> H, n_pixels_per_cam |-> W * H,
   n_rays_per_view |-> IF n_rays_per_view = 0 THEN W ELSE n_rays_per_view,
   random |-> random, subpixel |-> IF random THEN subpixel ELSE FALSE]

\* MultiViewDataset.__len__
dataset_len(ds) == ds.n_pixels_per_cam \div ds.n_rays_per_view

\* the infinite generator generate_random_uv_samples
random_generator(W, H, n_samples_per_cam, subpixel) ==
  [kind |-> "random", W |-> W, H |-> H,
   M |-> samples_per_cam(n_samples_per_cam, W), subpixel |-> subpixel,
   remaining |-> 0, gen |-> <<>>]

\* MultiViewDataset.__iter__: islice(random generator, len(self)), or one
\* pass of the sequential generator
dataset_iter(ds) ==
  IF ds.random
  THEN [random_generator(ds.W, ds.H, ds.n_rays_per_view, ds.subpixel)
          EXCEPT !.kind = "islice", !.remaining = dataset_len(ds)]
  ELSE [kind |-> "sequential", W |-> ds.W, H |-> ds.H,
        M |-> ds.n_rays_per_view, subpixel |-> FALSE, remaining |-> 0,
        gen |-> new_generator(ds.W, ds.H, ds.n_rays_per_view, 1)]

\* whether next() on the iterator yields a batch: the random generator loops
\* forever, islice counts down, the sequential generator runs out of passes
it_has_next(it) ==
  IF it.kind = "random" THEN TRUE
  ELSE IF it.kind = "islice" THEN it.remaining > 0
  ELSE gen_has_next(it.gen)

\* the iterator after it yielded a batch
it_advance(it) ==
  IF it.kind = "random" THEN it
  ELSE IF it.kind = "islice" THEN [it EXCEPT !.remaining = @ - 1]
  ELSE [it EXCEPT !.gen = gen_advance(@)]

\* ------------------------------------------------------ dataset calls

\* n_samples_per_cam and n_rays_per_view are at most MaxRays
MaxRays == 2
\* the consumer of the bare random generator asks for at most MaxDraws batches
MaxDraws == 2

\* a random generator used directly
InitRandomUV ==
  \E W \in 1..MaxSide : \E H \in 1..MaxSide : \E n \in 0..MaxRays :
    \E subpixel \in BOOLEAN :
      /\ samples_per_cam(n, W) <= MaxRays
      /\ call = [op |-> "random_uv", pc |-> "iterating",
                 ds |-> <<>>,
                 it |-> random_generator(W, H, n, subpixel),
                 count |-> 0, uv |-> <<>>]

\* a dataset before its iteration
InitDataset ==
  \E W \in 1..MaxSide : \E H \in 1..MaxSide : \E n \in 0..MaxRays :
    \E random \in BOOLEAN : \E subpixel \in BOOLEAN :
      /\ samples_per_cam(n, W) <= MaxRays
      /\ call = [op |-> "dataset", pc |-> "created",
                 ds |-> dataset_init(W, H, n, random, subpixel),
                 it |-> <<>>, count |-> 0, uv |-> <<>>]

\* iter(dataset)
DatasetIter ==
  /\ call.op = "dataset" /\ call.pc = "created"
  /\ call' = [call EXCEPT !.pc = "iterating", !.it = dataset_iter(call.ds)]

\* next() yields a batch; the bare random generator is asked MaxDraws times
IterNext ==
  /\ call.op \in {"random_uv", "dataset"} /\ call.pc = "iterating"
  /\ it_has_next(call.it)
  /\ call.it.kind = "random" => call.count < MaxDraws
  /\ IF call.it.kind = "sequential"
     THEN call' = [call EXCEPT !.pc = "yielded",
                     !.uv = gen_batch(call.it.gen),
                     !.it = it_advance(call.it), !.count = @ + 1]
     ELSE \E uvn \in SeqsOf(UvnValues \X UvnValues, call.it.M) :
            call' = [call EXCEPT !.pc = "yielded",
                       !.uv = random_uv_batch(uvn, call.it.W, call.it.H,
                                              call.it.subpixel),
                       !.it = it_advance(call.it), !.count = @ + 1]

\* the consumer takes the batch and the iterator is resumed
IterTake ==
  /\ call.op \in {"random_uv", "dataset"} /\ call.pc = "yielded"
  /\ call' = [call EXCEPT !.pc = "iterating", !.uv = <<>>]

\* next() on an iterator that has no further batch ends the iteration
IterStop ==
  /\ call.op \in {"random_uv", "dataset"} /\ call.pc = "iterating"
  /\ ~it_has_next(call.it)
  /\ call' = [call EXCEPT !.pc = "exhausted"]

InitDatasets == InitRandomUV \/ InitDataset

NextDataset == DatasetIter \/ IterNext \/ IterTake \/ IterStop

SpecDataset == InitDatasets /\ [][NextDataset]_vars

\* ---------------------------------------------------- dataset properties

IsInteger(x) == x.den = 1

\* -0.5 < x < size - 0.5
InsideImage(x, size) ==
  /\ RLt(R(-1, 2), x)
  /\ RLt(x, RSub(R(size, 1), R(1, 2)))

\* C17: every batch the random generator yields, at any position of the
\* sequence, holds M coordinates with -0.5 < u < W - 0.5 and
\* -0.5 < v < H - 0.5; without subpixel coordinates they are integer pixel
\* indices in 0..W-1 and 0..H-1; the generator never ends on its own.
C17_RandomUVInsideImage ==
  /\ (call.op \in {"random_uv", "dataset"} /\ call.pc = "yielded"
        /\ call.it.kind # "sequential") =>
       /\ Len(call.uv) = call.it.M
       /\ \A m \in 1..Len(call.uv) :
            /\ InsideImage(call.uv[m][1], call.it.W)
            /\ InsideImage(call.uv[m][2], call.it.H)
            /\ ~call.it.subpixel =>
                 /\ IsInteger(call.uv[m][1]) /\ IsInteger(call.uv[m][2])
                 /\ call.uv[m][1].num \in 0..(call.it.W - 1)
                 /\ call.uv[m][2].num \in 0..(call.it.H - 1)
  /\ call.op = "random_uv" => call.pc # "exhausted"

\* a later batch of the bare generator, rounded, with one coordinate on the
\* last pixel of a row and others on the first pixel
C17_Witness ==
  /\ call.op = "random_uv" /\ call.pc = "yielded"
  /\ call.count >= 2
  /\ ~call.it.subpixel
  /\ call.it.W >= 2 /\ call.it.M >= 2
  /\ call.uv[1][1] = R(call.it.W - 1, 1)
  /\ call.uv[2][1] = Zero
  /\ call.uv[1][2] = Zero

\* C18: one iteration over a MultiViewDataset yields exactly
\* len(dataset) = n_pixels_per_cam // n_rays_per_view batches, in random mode
\* and in sequential mode alike.
C18_IterationYieldsLenBatches ==
  (call.op = "dataset" /\ call.pc = "exhausted") =>
    call.count = dataset_len(call.ds)

\* C18 restricted to the random mode: islice cuts the generator after
\* len(dataset) batches.
C18_RandomModeYieldsLenBatches ==
  (call.op = "dataset" /\ call.pc = "exhausted" /\ call.ds.random) =>
    call.count = dataset_len(call.ds)

====
